---- MODULE Spec2Model ----
(***************************************************************************)
(* The scan store of the QR scanner: class QRDatabase of src/app.py.       *)
(*                                                                         *)
(* The store is an SQLite file with the tables scans and daily_stats and   *)
(* the bookkeeping table sqlite_sequence that AUTOINCREMENT maintains.     *)
(* Every method opens its own connection through get_connection, which     *)
(* commits when the body returns and rolls back when it raises.  Python's  *)
(* sqlite3 module opens a transaction implicitly before INSERT, UPDATE,    *)
(* DELETE and REPLACE; SQLite lets only one connection hold the write      *)
(* (RESERVED) lock of a database file, and a second connection that asks   *)
(* for it gets "database is locked" once its busy timeout has passed.      *)
(*                                                                         *)
(* Text is modelled as a sequence of one-character strings, so that        *)
(* slicing, LIKE matching and serialisation are computed, not assumed.     *)
(* A nullable column holds NULL (the empty tuple) or Some(v) == <<v>>.     *)
(***************************************************************************)
EXTENDS Integers, Sequences, FiniteSets, TLC

\* ------------------------------------------------------------------ bounds
\* last clock tick of a behaviour
MaxTime == 2
\* largest id AUTOINCREMENT hands out in a behaviour
MaxId == 2
\* clock ticks per calendar day
TicksPerDay == 2

\* ------------------------------------------------------- program constants
\* save_scan, line 143: payloads longer than this are truncated in the preview
PreviewLimit == 100
\* save_scan, line 143: characters kept in front of the ellipsis
PreviewKeep == 97
\* get_stats, line 317: LIMIT of the recent-activity query
RecentLimit == 7

\* ------------------------------------------------------------ input values
URL_A == <<"h", "t", "t", "p", "s", ":", "/", "/", "a", ".", "c", "o", "m">>
WIFI_HOME == <<"W", "I", "F", "I", ":", "S", ":", "H", "o", "m", "e", ";", "T", ":", "W", "P", "A", ";", "P", ":", "s", "e", "c", "r", "e", "t", ";">>
FILE_A == <<"a", ".", "p", "n", "g">>
FILE_B == <<"b", ".", "p", "n", "g">>
TAG_HOME == <<"h", "o", "m", "e">>
NOTE == <<"n", "o", "t", "e">>

Payloads == {URL_A, WIFI_HOME}
\* the arguments save_scan is called with: the same payload arrives under
\* two filenames and two types
SaveInputs ==
    {[filename |-> FILE_A, qr_data |-> URL_A, qr_type |-> "url"],
     [filename |-> FILE_B, qr_data |-> WIFI_HOME, qr_type |-> "wifi"],
     [filename |-> FILE_B, qr_data |-> URL_A, qr_type |-> "wifi"]}
TagInputs == {<<TAG_HOME>>}
NoteInputs == {NOTE}
Ids == 1..MaxId
\* the offset of the local time zone from UTC, in ticks
TimeZones == {-1, 0, 1}

NULL == <<>>
Some(v) == <<v>>

\* ------------------------------------------------------------ pure helpers
\* hashlib.md5(qr_data.encode()).hexdigest(): the digests of the model's payloads
md5(qr_data) ==
    CASE qr_data = URL_A -> "66ccb499bd49d27970d31bd0dca319bd"
      [] qr_data = WIFI_HOME -> "968b052cad25ec022f485cbaaa52b35d"

\* qr_data[:97] + '...' if len(qr_data) > 100 else qr_data
data_preview(qr_data) ==
    IF Len(qr_data) > PreviewLimit
    THEN SubSeq(qr_data, 1, PreviewKeep) \o <<".", ".", ".">>
    ELSE qr_data

RECURSIVE json_items(_)
json_items(tags) ==
    IF tags = <<>> THEN <<>>
    ELSE <<"\"">> \o Head(tags) \o <<"\"">>
         \o (IF Len(tags) > 1 THEN <<",", " ">> ELSE <<>>)
         \o json_items(Tail(tags))

\* json.dumps of a list of plain strings
json_dumps(tags) == <<"[">> \o json_items(tags) \o <<"]">>

\* the column default '[]' of scans.tags
DefaultTags == <<"[", "]">>

\* ------------------------------------------------------------------- state
VARIABLES
    db,        \* the committed content of the database file
    tx,        \* NULL, or Some(write set) of the connection save_scan holds open
    call,      \* NULL, or Some(arguments and scan_id) of the save_scan in progress
    pre,       \* NULL, or Some(db) as it was when the save_scan in progress began
    pc,        \* "idle", or the position of the save_scan in progress
    now,       \* the clock, in ticks
    last,      \* the latest completed call and what it returned or raised
    deleted,   \* history: the ids (and payloads) for which delete_scan returned True
    issued,    \* history: the ids returned for inserted records, in order
    scn,       \* history: the results of the three-save scenario, or Off
    image,            \* NULL, or Some(mode) of the image given to scan_qr_from_image
    scan_pc,          \* the position of the scan_qr_from_image call
    enhanced_images,  \* the enhancement candidates the loop has not reached yet
    decoded_objects,  \* the symbols of the latest decode
    obj_index,        \* how many of decoded_objects the result loop has taken
    scan_results,     \* the list results of scan_qr_from_image
    detected_texts,   \* the texts scan_qr_from_image has seen in this call
    decodes,          \* history: the rasters decoded, in order, and what each gave
    data,             \* NULL, or Some(argument) of detect_content_type
    content_type      \* NULL, or Some(tag) that detect_content_type returned

store == <<db, tx, call, pre, pc, now, last, deleted, issued, scn>>
scanner == <<image, scan_pc, enhanced_images, decoded_objects, obj_index,
             scan_results, detected_texts, decodes>>
classifier == <<data, content_type>>
vars == <<store, scanner, classifier>>

\* DATE('now'): SQLite's current date is the UTC date
sql_date_now == now \div TicksPerDay
\* date.today().isoformat(): the local date, tz ticks away from UTC
date_today(tz) == (now + tz) \div TicksPerDay

\* what a call did: its name, its key argument (the payload of save_scan, the
\* id of the others), how it ended, what it returned, and a history note: for
\* save_scan whether a row was committed, for toggle_favorite the flag before
\* the call and whether the call before it was a toggle of the same id
Result(op, arg, status, value, hist) ==
    [op |-> op, arg |-> arg, status |-> status, value |-> value, hist |-> hist]
NoResult == Result("none", NULL, "ok", NULL, FALSE)
Errors == {"io_error", "locked", "syntax_error"}
\* the scenario was left
Off == <<Result("off", NULL, "ok", NULL, FALSE)>>

\* ----------------------------------------------------------- table helpers
Put(tbl, key, row) ==
    [k \in DOMAIN tbl \cup {key} |-> IF k = key THEN row ELSE tbl[k]]
Remove(tbl, key) == [k \in DOMAIN tbl \ {key} |-> tbl[k]]
Max(S) == CHOOSE x \in S : \A y \in S : y <= x

\* CREATE TABLE scans / daily_stats: a new database file
EmptyDb == [scans |-> <<>>, daily_stats |-> <<>>, sqlite_sequence |-> 0]

\* WHERE data_hash = ?: a NULL never compares equal
select_id_by_hash(scans, data_hash) ==
    {i \in DOMAIN scans : scans[i].data_hash # NULL /\ scans[i].data_hash = Some(data_hash)}

\* data_hash TEXT UNIQUE: the index rejects a second row with the same
\* non-NULL value
unique_violation(scans, row) ==
    /\ row.data_hash # NULL
    /\ \E i \in DOMAIN scans : scans[i].data_hash = row.data_hash

next_rowid_reuses(scans, sqlite_sequence) ==
    Max(DOMAIN scans \cup {0}) + 1
\* id INTEGER PRIMARY KEY AUTOINCREMENT: one more than the largest rowid the
\* table has ever held
next_rowid(scans, sqlite_sequence) ==
    Max(DOMAIN scans \cup {sqlite_sequence}) + 1

new_row_without_hash(id, filename, qr_data, qr_type, file_size_kb, file_format, data_hash) ==
    [id |-> id, filename |-> filename, qr_data |-> qr_data, qr_type |-> qr_type,
     scan_date |-> sql_date_now, scan_time |-> now % TicksPerDay,
     file_size_kb |-> file_size_kb, file_format |-> file_format,
     tags |-> DefaultTags, notes |-> NULL, is_favorite |-> 0,
     data_preview |-> Some(data_preview(qr_data)), data_hash |-> NULL,
     created_at |-> now]
\* the row INSERT INTO scans builds (lines 135-145) with the column defaults
\* of CREATE TABLE scans
new_row(id, filename, qr_data, qr_type, file_size_kb, file_format, data_hash) ==
    [id |-> id, filename |-> filename, qr_data |-> qr_data, qr_type |-> qr_type,
     scan_date |-> sql_date_now, scan_time |-> now % TicksPerDay,
     file_size_kb |-> file_size_kb, file_format |-> file_format,
     tags |-> DefaultTags, notes |-> NULL, is_favorite |-> 0,
     data_preview |-> Some(data_preview(qr_data)), data_hash |-> Some(data_hash),
     created_at |-> now]

get_connection_exit_commits(committed, writes, raised) ==
    [t \in DOMAIN committed |->
        IF t \in DOMAIN writes THEN writes[t] ELSE committed[t]]
\* get_connection, lines 34-42: commit when the body returned, roll back when
\* it (or the commit) raised
get_connection_exit(committed, writes, raised) ==
    IF raised THEN committed
    ELSE [t \in DOMAIN committed |->
            IF t \in DOMAIN writes THEN writes[t] ELSE committed[t]]

\* ---------------------------------------------------------------- history
ScenarioStep(k) ==
    CASE k = 1 -> [qr_data |-> URL_A, qr_type |-> "url"]
      [] k = 2 -> [qr_data |-> WIFI_HOME, qr_type |-> "wifi"]
      [] k = 3 -> [qr_data |-> URL_A, qr_type |-> "url"]

NextScn(r, qr_type) ==
    IF /\ scn # Off
       /\ Len(scn) < 3
       /\ r.op = "save_scan"
       /\ r.status # "io_error"
       /\ r.arg = ScenarioStep(Len(scn) + 1).qr_data
       /\ qr_type = ScenarioStep(Len(scn) + 1).qr_type
    THEN Append(scn, r)
    ELSE Off

\* a call returns or raises
Completes(r) ==
    /\ last' = r
    /\ scn' = NextScn(r, "")

CompletesSave(r, qr_type) ==
    /\ last' = r
    /\ scn' = NextScn(r, qr_type)

\* the store after QRDatabase() on a new file
StoreInit ==
    /\ db = EmptyDb
    /\ tx = NULL
    /\ call = NULL
    /\ pre = NULL
    /\ pc = "idle"
    /\ now = 0
    /\ last = NoResult
    /\ deleted = {}
    /\ issued = <<>>
    /\ scn = <<>>

\* no scan_qr_from_image call has been made
ScannerInit ==
    /\ image = NULL
    /\ scan_pc = "call"
    /\ enhanced_images = <<>>
    /\ decoded_objects = <<>>
    /\ obj_index = 0
    /\ scan_results = <<>>
    /\ detected_texts = {}
    /\ decodes = <<>>

\* no detect_content_type call has been made
ClassifierInit ==
    /\ data = NULL
    /\ content_type = NULL

Init ==
    /\ StoreInit
    /\ ScannerInit
    /\ ClassifierInit

\* ----------------------------------------------------------------- actions
\* save_scan, lines 114-147: look the hash up, return the existing id or
\* insert the new row and go on to _update_daily_stats
save_scan(filename, qr_data, qr_type, file_size_kb, file_format, fail) ==
    /\ pc = "idle"
    /\ LET data_hash == md5(qr_data)
           existing == select_id_by_hash(db.scans, data_hash)
           arg == qr_data
           scan_id == next_rowid(db.scans, db.sqlite_sequence)
           row == new_row(scan_id, filename, qr_data, qr_type,
                          file_size_kb, file_format, data_hash)
       IN IF existing # {}
          THEN \* return existing['id']; the connection commits nothing
               /\ ~fail
               /\ CompletesSave(Result("save_scan", arg, "ok",
                                       CHOOSE i \in existing : TRUE, FALSE), qr_type)
               /\ UNCHANGED <<db, tx, call, pre, pc, issued>>
          ELSE /\ db.sqlite_sequence < MaxId
               /\ IF fail \/ unique_violation(db.scans, row)
                  THEN \* the INSERT raises: rollback, re-raise
                       /\ CompletesSave(Result("save_scan", arg, "io_error", NULL, FALSE),
                                        qr_type)
                       /\ db' = get_connection_exit(db, <<>>, TRUE)
                       /\ UNCHANGED <<tx, call, pre, pc, issued>>
                  ELSE \* the INSERT opens the transaction of this connection
                       /\ tx' = Some([scans |-> Put(db.scans, scan_id, row),
                                      sqlite_sequence |-> scan_id])
                       /\ call' = Some([arg |-> arg, qr_type |-> qr_type,
                                        scan_id |-> scan_id])
                       /\ pre' = Some(db)
                       /\ pc' = "update_daily_stats"
                       /\ UNCHANGED <<db, issued, last, scn>>
    /\ UNCHANGED <<now, deleted, scanner, classifier>>

\* SELECT ... FROM scans WHERE scan_date = DATE('now') GROUP BY qr_type,
\* lines 162-171
stats_groups(scans) ==
    LET today_rows == {i \in DOMAIN scans : scans[i].scan_date = sql_date_now}
        types == {scans[i].qr_type : i \in today_rows}
        group(t) == {i \in today_rows : scans[i].qr_type = t}
    IN {[qr_type |-> t,
         total |-> Cardinality(group(t)),
         unique_count |-> Cardinality({scans[i].data_hash : i \in group(t)} \ {NULL}),
         type_count |-> Cardinality(group(t))] : t \in types}

\* INSERT OR REPLACE INTO daily_stats, lines 176-189; by_type stands for the
\* JSON object json.dumps(type_counts)
upsert_daily_stats(daily_stats, today, results, first) ==
    Put(daily_stats, today,
        [date |-> today,
         total_scans |-> first.total,
         unique_scans |-> first.unique_count,
         by_type |-> [t \in {r.qr_type : r \in results} |->
                        (CHOOSE r \in results : r.qr_type = t).type_count],
         created_at |-> now])

\* a connection may take the write lock only while no other connection has
\* an open write transaction
write_lock_free == tx = NULL

\* _update_daily_stats, lines 154-189, called from save_scan line 150 on a
\* second connection while the first still holds its open INSERT
update_daily_stats(tz, fail) ==
    /\ pc = "update_daily_stats"
    /\ LET today == date_today(tz)
           results == stats_groups(db.scans)
           error(status) ==
               \* both connections roll back and the exception reaches the caller
               /\ CompletesSave(Result("save_scan", call[1].arg, status, NULL, FALSE),
                                call[1].qr_type)
               /\ db' = get_connection_exit(get_connection_exit(db, <<>>, TRUE),
                                            tx[1], TRUE)
               /\ tx' = NULL
               /\ call' = NULL
               /\ pre' = NULL
               /\ pc' = "idle"
       IN IF fail THEN error("io_error")
          ELSE IF results = {}
          THEN /\ pc' = "save_return"
               /\ UNCHANGED <<db, tx, call, pre, last, scn>>
          ELSE IF ~write_lock_free THEN error("locked")
          ELSE /\ \E first \in results :
                     db' = get_connection_exit(db,
                               [daily_stats |->
                                  upsert_daily_stats(db.daily_stats, today,
                                                     results, first)],
                               FALSE)
               /\ pc' = "save_return"
               /\ UNCHANGED <<tx, call, pre, last, scn>>
    /\ UNCHANGED <<now, deleted, issued, scanner, classifier>>

\* save_scan, line 152 and the exit of its with-block: commit and return
\* scan_id, or roll back and raise when the commit fails
save_scan_return(fail) ==
    /\ pc = "save_return"
    /\ db' = get_connection_exit(db, tx[1], fail)
    /\ IF fail
       THEN /\ CompletesSave(Result("save_scan", call[1].arg, "io_error", NULL, FALSE),
                             call[1].qr_type)
            /\ issued' = issued
       ELSE /\ CompletesSave(Result("save_scan", call[1].arg, "ok", call[1].scan_id,
                                    db'.scans # db.scans), call[1].qr_type)
            /\ issued' = Append(issued, call[1].scan_id)
    /\ tx' = NULL
    /\ call' = NULL
    /\ pre' = NULL
    /\ pc' = "idle"
    /\ UNCHANGED <<now, deleted, scanner, classifier>>

update_column_everywhere(scans, scan_id, column, value) ==
    [i \in DOMAIN scans |-> [scans[i] EXCEPT ![column] = value]]
\* UPDATE scans SET <column> = ? WHERE id = ?
update_column(scans, scan_id, column, value) ==
    [i \in DOMAIN scans |->
        IF i = scan_id THEN [scans[i] EXCEPT ![column] = value] ELSE scans[i]]

flip_sets(is_favorite) == 1
\* new_state = 0 if result['is_favorite'] else 1, line 237
flip(is_favorite) == IF is_favorite # 0 THEN 0 ELSE 1

\* toggle_favorite, lines 224-244
toggle_favorite(scan_id, fail) ==
    /\ pc = "idle"
    /\ IF scan_id \in DOMAIN db.scans
       THEN LET new_state == flip(db.scans[scan_id].is_favorite)
                writes == [scans |-> update_column(db.scans, scan_id,
                                                   "is_favorite", new_state)]
                hist == [before |-> db.scans[scan_id].is_favorite,
                         twice |-> /\ last.op = "toggle_favorite"
                                   /\ last.status = "ok"
                                   /\ last.arg = scan_id]
            IN /\ db' = get_connection_exit(db, writes, fail)
               /\ Completes(IF fail
                            THEN Result("toggle_favorite", scan_id, "io_error", NULL, FALSE)
                            ELSE Result("toggle_favorite", scan_id, "ok", new_state = 1, hist))
       ELSE /\ ~fail
            /\ db' = get_connection_exit(db, <<>>, FALSE)
            /\ Completes(Result("toggle_favorite", scan_id, "ok", FALSE, FALSE))
    /\ UNCHANGED <<tx, call, pre, pc, now, deleted, issued, scanner, classifier>>

\* update_tags, lines 246-254
update_tags(scan_id, tags, fail) ==
    /\ pc = "idle"
    /\ db' = get_connection_exit(db,
                [scans |-> update_column(db.scans, scan_id, "tags", json_dumps(tags))],
                fail)
    /\ Completes(Result("update_tags", scan_id,
                        IF fail THEN "io_error" ELSE "ok", NULL, FALSE))
    /\ UNCHANGED <<tx, call, pre, pc, now, deleted, issued, scanner, classifier>>

\* update_notes, lines 256-264
update_notes(scan_id, notes, fail) ==
    /\ pc = "idle"
    /\ db' = get_connection_exit(db,
                [scans |-> update_column(db.scans, scan_id, "notes", Some(notes))],
                fail)
    /\ Completes(Result("update_notes", scan_id,
                        IF fail THEN "io_error" ELSE "ok", NULL, FALSE))
    /\ UNCHANGED <<tx, call, pre, pc, now, deleted, issued, scanner, classifier>>

delete_returns_true(rowcount) == rowcount >= 0
\* return cursor.rowcount > 0, line 271
delete_returns(rowcount) == rowcount > 0

delete_scan_recounts(scan_id, fail) ==
    /\ pc = "idle"
    /\ LET rowcount == Cardinality({i \in DOMAIN db.scans : i = scan_id})
           scans == Remove(db.scans, scan_id)
           results == stats_groups(scans)
           writes == [scans |-> scans,
                      daily_stats |->
                         Put(db.daily_stats, sql_date_now,
                             [date |-> sql_date_now,
                              total_scans |-> Cardinality(DOMAIN scans),
                              unique_scans |-> Cardinality(DOMAIN scans),
                              by_type |-> [t \in {r.qr_type : r \in results} |->
                                 (CHOOSE r \in results : r.qr_type = t).type_count],
                              created_at |-> now])]
       IN /\ db' = get_connection_exit(db, writes, fail)
          /\ Completes(IF fail
                       THEN Result("delete_scan", scan_id, "io_error", NULL, FALSE)
                       ELSE Result("delete_scan", scan_id, "ok",
                                   delete_returns(rowcount), FALSE))
          /\ deleted' = IF ~fail /\ delete_returns(rowcount)
                        THEN deleted \cup {[id |-> scan_id,
                                            qr_data |-> IF rowcount > 0
                                                        THEN db.scans[scan_id].qr_data
                                                        ELSE NULL]}
                        ELSE deleted
    /\ UNCHANGED <<tx, call, pre, pc, now, issued, scanner, classifier>>

\* delete_scan, lines 266-271
delete_scan(scan_id, fail) ==
    /\ pc = "idle"
    /\ LET rowcount == Cardinality({i \in DOMAIN db.scans : i = scan_id})
           writes == [scans |-> Remove(db.scans, scan_id)]
       IN /\ db' = get_connection_exit(db, writes, fail)
          /\ Completes(IF fail
                       THEN Result("delete_scan", scan_id, "io_error", NULL, FALSE)
                       ELSE Result("delete_scan", scan_id, "ok",
                                   delete_returns(rowcount), FALSE))
          /\ deleted' = IF ~fail /\ delete_returns(rowcount)
                        THEN deleted \cup {[id |-> scan_id,
                                            qr_data |-> IF rowcount > 0
                                                        THEN db.scans[scan_id].qr_data
                                                        ELSE NULL]}
                        ELSE deleted
    /\ UNCHANGED <<tx, call, pre, pc, now, issued, scanner, classifier>>

\* ----------------------------------------------------------------- queries
UpperCase == <<"A", "B", "C", "D", "E", "F", "G", "H", "I", "J", "K", "L", "M",
               "N", "O", "P", "Q", "R", "S", "T", "U", "V", "W", "X", "Y", "Z">>
LowerCase == <<"a", "b", "c", "d", "e", "f", "g", "h", "i", "j", "k", "l", "m",
               "n", "o", "p", "q", "r", "s", "t", "u", "v", "w", "x", "y", "z">>
UpperToLower ==
    [c \in {UpperCase[k] : k \in DOMAIN UpperCase} |->
        LowerCase[CHOOSE k \in DOMAIN UpperCase : UpperCase[k] = c]]
\* LIKE folds the case of ASCII letters
fold(c) == IF c \in DOMAIN UpperToLower THEN UpperToLower[c] ELSE c

RECURSIVE like(_, _)
\* text LIKE pattern: % matches any run of characters, _ any one character
like(text, pattern) ==
    IF pattern = <<>> THEN text = <<>>
    ELSE IF Head(pattern) = "%"
    THEN like(text, Tail(pattern)) \/ (text # <<>> /\ like(Tail(text), pattern))
    ELSE /\ text # <<>>
         /\ Head(pattern) = "_" \/ fold(Head(pattern)) = fold(Head(text))
         /\ like(Tail(text), Tail(pattern))

\* ORDER BY created_at DESC: every order of the selected rows in which
\* created_at does not increase; rows of the same second come in any order
order_by_created_at_desc(scans, selected) ==
    {o \in [1..Cardinality(selected) -> selected] :
        /\ \A i, j \in DOMAIN o : i # j => o[i] # o[j]
        /\ \A i, j \in DOMAIN o :
              i < j => scans[o[i]].created_at >= scans[o[j]].created_at}

\* [dict(row) for row in cursor.fetchall()], cut by LIMIT
fetchall(scans, order, limit) ==
    [k \in 1..(IF limit < Len(order) THEN limit ELSE Len(order)) |-> scans[order[k]]]

\* get_all_scans, lines 191-200: the results the query may return
get_all_scans(scans, limit) ==
    {fetchall(scans, o, limit) : o \in order_by_created_at_desc(scans, DOMAIN scans)}

\* get_scans_by_type, lines 202-211
get_scans_by_type(scans, qr_type) ==
    LET selected == {i \in DOMAIN scans : scans[i].qr_type = qr_type}
    IN {fetchall(scans, o, Cardinality(selected)) :
            o \in order_by_created_at_desc(scans, selected)}

\* get_favorites, lines 213-222
get_favorites(scans) ==
    LET selected == {i \in DOMAIN scans : scans[i].is_favorite = 1}
    IN {fetchall(scans, o, Cardinality(selected)) :
            o \in order_by_created_at_desc(scans, selected)}

\* search_scans, lines 273-285
search_scans(scans, query) ==
    LET search_term == <<"%">> \o query \o <<"%">>
        selected == {i \in DOMAIN scans :
                        \/ like(scans[i].qr_data, search_term)
                        \/ like(scans[i].filename, search_term)
                        \/ like(scans[i].tags, search_term)}
    IN {fetchall(scans, o, Cardinality(selected)) :
            o \in order_by_created_at_desc(scans, selected)}

\* the words SQLite reserves: none of them can stand as a column alias
SqlReserved == {"select", "from", "where", "group", "order", "by", "distinct",
                "unique", "as", "limit", "table", "index"}

\* the column aliases of the statements of get_stats in the order the
\* statements are executed (lines 295, 299, 304, 313, 322)
StatsAliases == <<"total", "unique", "count", "count", "count">>

\* the rows of SELECT <column>, COUNT(*) FROM scans GROUP BY <column> as the
\* dict that dict(cursor.fetchall()) builds
count_by(scans, column) ==
    [v \in {scans[i][column] : i \in DOMAIN scans} |->
        Cardinality({i \in DOMAIN scans : scans[i][column] = v})]

\* ORDER BY scan_date DESC LIMIT 7: the latest dates
recent_dates(scans) ==
    LET dates == {scans[i].scan_date : i \in DOMAIN scans}
    IN {d \in dates : Cardinality({e \in dates : e > d}) < RecentLimit}

\* get_stats, lines 287-325: the dict it returns, or the error of the first
\* statement SQLite refuses to prepare
get_stats_result(scans) ==
    IF \E k \in DOMAIN StatsAliases : StatsAliases[k] \in SqlReserved
    THEN Result("get_stats", NULL, "syntax_error", NULL, FALSE)
    ELSE Result("get_stats", NULL, "ok",
                [total_scans |-> Cardinality(DOMAIN scans),
                 unique_scans |->
                    Cardinality({scans[i].data_hash : i \in DOMAIN scans} \ {NULL}),
                 by_type |-> count_by(scans, "qr_type"),
                 recent_activity |->
                    [d \in recent_dates(scans) |-> count_by(scans, "scan_date")[d]],
                 favorites |->
                    Cardinality({i \in DOMAIN scans : scans[i].is_favorite = 1})],
                FALSE)

\* a call of get_stats: it reads only, its connection has nothing to commit
get_stats ==
    /\ pc = "idle"
    /\ Completes(get_stats_result(db.scans))
    /\ db' = get_connection_exit(db, <<>>, get_stats_result(db.scans).status # "ok")
    /\ UNCHANGED <<tx, call, pre, pc, now, deleted, issued, scanner, classifier>>

\* the clock advances, between calls and between the INSERT of save_scan and
\* the SELECT of _update_daily_stats, the statements that read it
AdvanceClock ==
    /\ pc \in {"idle", "update_daily_stats"}
    /\ now < MaxTime
    /\ now' = now + 1
    /\ scn' = IF \/ (now + 1) \div TicksPerDay = now \div TicksPerDay
                 \/ (scn = <<>> /\ pc = "idle")
              THEN scn ELSE Off
    /\ UNCHANGED <<db, tx, call, pre, pc, last, deleted, issued, scanner, classifier>>

Next ==
    \/ \E a \in SaveInputs, fail \in BOOLEAN :
          save_scan(a.filename, a.qr_data, a.qr_type, NULL, NULL, fail)
    \/ \E tz \in TimeZones, fail \in BOOLEAN : update_daily_stats(tz, fail)
    \/ \E fail \in BOOLEAN : save_scan_return(fail)
    \/ \E scan_id \in Ids, fail \in BOOLEAN : toggle_favorite(scan_id, fail)
    \/ \E scan_id \in Ids, tags \in TagInputs, fail \in BOOLEAN :
          update_tags(scan_id, tags, fail)
    \/ \E scan_id \in Ids, notes \in NoteInputs, fail \in BOOLEAN :
          update_notes(scan_id, notes, fail)
    \/ \E scan_id \in Ids, fail \in BOOLEAN : delete_scan(scan_id, fail)
    \/ get_stats
    \/ AdvanceClock

Spec == Init /\ [][Next]_vars

\* ------------------------------------------------------------ QR scanner
\* the literals of detect_content_type, lines 343-355
HTTP == <<"h", "t", "t", "p", ":", "/", "/">>
HTTPS == <<"h", "t", "t", "p", "s", ":", "/", "/">>
WWW == <<"w", "w", "w", ".">>
WIFI == <<"W", "I", "F", "I", ":">>
VCARD == <<"B", "E", "G", "I", "N", ":", "V", "C", "A", "R", "D">>
MAILTO == <<"m", "a", "i", "l", "t", "o", ":">>
AT == <<"@">>
DOTCOM == <<".", "c", "o", "m">>
TEL == <<"t", "e", "l", ":">>
SMSTO == <<"S", "M", "S", "T", "O", ":">>
BITCOIN == <<"B", "I", "T", "C", "O", "I", "N", ":">>
\* other pieces of the payloads given to detect_content_type
WWW_UPPER == <<"W", "W", "W", ".">>
WIFI_LOWER == <<"w", "i", "f", "i", ":">>
MAILTO_UPPER == <<"M", "A", "I", "L", "T", "O", ":">>
TEL_UPPER == <<"T", "E", "L", ":">>
ADDRESS == <<"a", "@", "b", ".", "c", "o", "m">>
ADDRESS_UPPER == <<"A", "@", "B", ".", "C", "O", "M">>
ONE == <<"1">>
DOT == <<".">>
WORDS == <<"x", " ", "y", " ", "z", " ", "w">>

\* bound: the number of pieces of a payload given to detect_content_type
MaxTokens == 2
Tokens == {HTTP, HTTPS, WWW, WWW_UPPER, WIFI, WIFI_LOWER, VCARD, MAILTO,
           MAILTO_UPPER, AT, ADDRESS, ADDRESS_UPPER, TEL, TEL_UPPER, SMSTO,
           BITCOIN, ONE, DOT, WORDS}
RECURSIVE Concat(_)
Concat(ts) == IF ts = <<>> THEN <<>> ELSE Head(ts) \o Concat(Tail(ts))
Strings ==
    {Concat(ts) : ts \in UNION {[1..k -> Tokens] : k \in 0..MaxTokens}}

\* str.startswith
startswith(str, prefix) ==
    Len(str) >= Len(prefix) /\ SubSeq(str, 1, Len(prefix)) = prefix
\* sub in str
contains(str, sub) ==
    \E i \in 0..(Len(str) - Len(sub)) : SubSeq(str, i + 1, i + Len(sub)) = sub
\* str.lower
lower(str) == [i \in DOMAIN str |-> fold(str[i])]
\* str.replace(old, '', 1): the first old is taken out
replace_first(str, old) ==
    IF \E i \in DOMAIN str : str[i] = old
    THEN LET k == CHOOSE i \in DOMAIN str :
                     str[i] = old /\ \A j \in 1..(i - 1) : str[j] # old
         IN SubSeq(str, 1, k - 1) \o SubSeq(str, k + 1, Len(str))
    ELSE str
DecimalDigits == {"0", "1", "2", "3", "4", "5", "6", "7", "8", "9"}
\* str.isdigit: not empty and digits only
isdigit(str) == str # <<>> /\ \A i \in DOMAIN str : str[i] \in DecimalDigits
Whitespace == {" "}
\* len(str.split()): the number of runs of characters that are not whitespace
split_len(str) ==
    Cardinality({i \in DOMAIN str :
                    /\ str[i] \notin Whitespace
                    /\ i = 1 \/ str[i - 1] \in Whitespace})
MultipleWords == 3

detect_content_type_phone_first(payload) ==
    LET data_lower == lower(payload)
    IN IF \/ startswith(payload, HTTP)
          \/ startswith(payload, HTTPS)
          \/ startswith(payload, WWW) THEN "url"
       ELSE IF startswith(payload, WIFI) THEN "wifi"
       ELSE IF startswith(payload, VCARD) THEN "vcard"
       ELSE IF startswith(payload, TEL) THEN "phone"
       ELSE IF \/ contains(data_lower, MAILTO)
               \/ contains(data_lower, AT) /\ contains(data_lower, DOTCOM)
            THEN "email"
       ELSE IF startswith(payload, SMSTO) THEN "sms"
       ELSE IF startswith(payload, BITCOIN) THEN "crypto"
       ELSE IF isdigit(replace_first(payload, ".")) THEN "numeric"
       ELSE IF split_len(payload) > MultipleWords THEN "text"
       ELSE "text"

\* detect_content_type, lines 339-362
detect_content_type(payload) ==
    LET data_lower == lower(payload)
    IN IF \/ startswith(payload, HTTP)
          \/ startswith(payload, HTTPS)
          \/ startswith(payload, WWW) THEN "url"
       ELSE IF startswith(payload, WIFI) THEN "wifi"
       ELSE IF startswith(payload, VCARD) THEN "vcard"
       ELSE IF \/ contains(data_lower, MAILTO)
               \/ contains(data_lower, AT) /\ contains(data_lower, DOTCOM)
            THEN "email"
       ELSE IF startswith(payload, TEL) THEN "phone"
       ELSE IF startswith(payload, SMSTO) THEN "sms"
       ELSE IF startswith(payload, BITCOIN) THEN "crypto"
       ELSE IF isdigit(replace_first(payload, ".")) THEN "numeric"
       ELSE IF split_len(payload) > MultipleWords THEN "text"
       ELSE "text"

\* a payload is given to detect_content_type
DetectInit ==
    /\ StoreInit
    /\ ScannerInit
    /\ data \in {Some(str) : str \in Strings}
    /\ content_type = NULL

\* one call of detect_content_type
DetectContentType ==
    /\ data # NULL
    /\ content_type = NULL
    /\ content_type' = Some(detect_content_type(data[1]))
    /\ UNCHANGED <<store, scanner, data>>

SpecDetect == DetectInit /\ [][DetectContentType]_vars

\* bound: the number of symbols pyzbar finds in one raster
MaxSymbols == 2
\* the PIL modes of the images given to scan_qr_from_image
Modes == {"RGB", "L", "LA", "1"}
\* np.array(image), line 420: the dimensions, the channels and the element
\* type of the array per mode
np_array(mode) ==
    CASE mode = "RGB" -> [ndim |-> 3, channels |-> 3, dtype |-> "uint8"]
      [] mode = "L" -> [ndim |-> 2, channels |-> 1, dtype |-> "uint8"]
      [] mode = "LA" -> [ndim |-> 3, channels |-> 2, dtype |-> "uint8"]
      [] mode = "1" -> [ndim |-> 2, channels |-> 1, dtype |-> "bool"]
\* cv2.cvtColor(image_np, cv2.COLOR_RGB2GRAY) takes 3 or 4 channels
RgbChannels == {3, 4}
\* a byte that is not valid UTF-8
INVALID_BYTE == "\\xff"
\* obj.data.decode("utf-8", errors='ignore'), line 439: the bytes that are not
\* valid are dropped
utf8_decode_ignore(bytes) == SelectSeq(bytes, LAMBDA b : b # INVALID_BYTE)
\* the symbols pyzbar can find: their bytes and their place in the image
SymbolData == {URL_A, URL_A \o <<INVALID_BYTE>>, WIFI_HOME}
Rects == {1, 2}
Symbols == [data : SymbolData, rect : Rects]
\* decode(raster), lines 425 and 432: any list of symbols
Decoded == UNION {[1..k -> Symbols] : k \in 0..MaxSymbols}

\* enhance_image_for_scanning, lines 384-411: NULL when cv2 raises, or the
\* four candidates in the order they are appended
enhance_image_for_scanning(image_np) ==
    LET cvtColor_raises == image_np.ndim = 3 /\ image_np.channels \notin RgbChannels
        \* gray has the element type of image_np; adaptiveThreshold wants an
        \* 8-bit single-channel image
        adaptiveThreshold_raises == image_np.dtype # "uint8"
    IN IF cvtColor_raises \/ adaptiveThreshold_raises
       THEN NULL
       ELSE Some(<<"thresh", "otsu", "equalized", "denoised">>)

\* an image is given to scan_qr_from_image
ScanInit ==
    /\ StoreInit
    /\ ClassifierInit
    /\ image \in {Some(mode) : mode \in Modes}
    /\ scan_pc = "call"
    /\ enhanced_images = <<>>
    /\ decoded_objects = <<>>
    /\ obj_index = 0
    /\ scan_results = <<>>
    /\ detected_texts = {}
    /\ decodes = <<>>

\* scan_qr_from_image, lines 415-429: decode the image as it is and, with no
\* symbol, make the enhanced images
scan_qr_from_image(decoded) ==
    /\ scan_pc = "call"
    /\ image # NULL
    /\ scan_results' = <<>>
    /\ detected_texts' = {}
    /\ decoded_objects' = decoded
    /\ decodes' = <<[raster |-> "image_np", objects |-> decoded]>>
    /\ IF decoded # <<>>
       THEN scan_pc' = "results" /\ enhanced_images' = <<>>
       ELSE LET enhanced == enhance_image_for_scanning(np_array(image[1]))
            IN IF enhanced = NULL
               THEN scan_pc' = "raised" /\ enhanced_images' = <<>>
               ELSE scan_pc' = "enhanced" /\ enhanced_images' = enhanced[1]
    /\ UNCHANGED <<store, classifier, image, obj_index>>

decode_enhanced_all(decoded) ==
    /\ scan_pc = "enhanced"
    /\ decoded_objects' = decoded
    /\ decodes' = Append(decodes, [raster |-> Head(enhanced_images),
                                   objects |-> decoded])
    /\ enhanced_images' = Tail(enhanced_images)
    /\ scan_pc' = IF Tail(enhanced_images) = <<>> THEN "results" ELSE "enhanced"
    /\ UNCHANGED <<store, classifier, image, obj_index, scan_results,
                   detected_texts>>

\* one turn of the loop over enhanced_images, lines 431-434
decode_enhanced(decoded) ==
    /\ scan_pc = "enhanced"
    /\ decoded_objects' = decoded
    /\ decodes' = Append(decodes, [raster |-> Head(enhanced_images),
                                   objects |-> decoded])
    /\ enhanced_images' = Tail(enhanced_images)
    /\ scan_pc' = IF decoded # <<>> \/ Tail(enhanced_images) = <<>>
                  THEN "results" ELSE "enhanced"
    /\ UNCHANGED <<store, classifier, image, obj_index, scan_results,
                   detected_texts>>

\* one turn of the loop over decoded_objects, lines 437-454; the timestamp of
\* the result is left out
process_object ==
    /\ scan_pc = "results"
    /\ obj_index < Len(decoded_objects)
    /\ obj_index' = obj_index + 1
    /\ LET obj == decoded_objects[obj_index + 1]
           text == utf8_decode_ignore(obj.data)
       IN IF text \in detected_texts
          THEN UNCHANGED <<scan_results, detected_texts>>
          ELSE /\ detected_texts' = detected_texts \cup {text}
               /\ scan_results' =
                     Append(scan_results, [data |-> text,
                                           type |-> detect_content_type(text),
                                           bounds |-> obj.rect])
    /\ UNCHANGED <<store, classifier, image, scan_pc, enhanced_images,
                   decoded_objects, decodes>>

\* return results, line 459
scan_return ==
    /\ scan_pc = "results"
    /\ obj_index = Len(decoded_objects)
    /\ scan_pc' = "returned"
    /\ UNCHANGED <<store, classifier, image, enhanced_images, decoded_objects,
                   obj_index, scan_results, detected_texts, decodes>>

NextScan ==
    \/ \E decoded \in Decoded : scan_qr_from_image(decoded)
    \/ \E decoded \in Decoded : decode_enhanced(decoded)
    \/ process_object
    \/ scan_return

SpecScan == ScanInit /\ [][NextScan]_vars

\* ------------------------------------------------------------------ claims
\* a call returns or raises in this step
Returns == pc' = "idle" /\ now' = now
\* the committed database as it was when the call that returns now began
Before == IF pc = "idle" THEN db ELSE pre[1]
\* every version of the scans table a connection can see
ScansVersions == {db.scans} \cup (IF tx = NULL THEN {} ELSE {tx[1].scans})
Limits == 0..MaxId
Queries == {<<"H", "O", "M", "E">>, <<"p", "n", "g">>}
RowTypes == {a.qr_type : a \in SaveInputs}
RowIds(rows) == {rows[k].id : k \in DOMAIN rows}

\* C1: in every reachable state no two rows of scans have the same data_hash,
\* and no two rows have the same payload
C1_UniqueDataHash ==
    \A scans \in ScansVersions : \A i, j \in DOMAIN scans :
        i # j => /\ scans[i].data_hash # scans[j].data_hash
                 /\ scans[i].qr_data # scans[j].qr_data

\* C1 witness: two records are stored and a save of a stored payload was
\* answered with the existing id
C1_Witness ==
    /\ Cardinality(DOMAIN db.scans) = 2
    /\ last.op = "save_scan" /\ last.status = "ok" /\ last.hist = FALSE

\* C2: two calls of save_scan in a row with the same payload both return,
\* with the same id, and leave exactly one record for the payload; the
\* second call inserts no row and changes nothing
C2_SaveTwiceSameId ==
    [][(/\ Returns
        /\ last.op = "save_scan" /\ last'.op = "save_scan"
        /\ last.status # "io_error" /\ last'.status # "io_error"
        /\ last.arg = last'.arg)
       => /\ last.status = "ok" /\ last'.status = "ok"
          /\ last'.value = last.value
          /\ Cardinality({i \in DOMAIN db'.scans :
                             db'.scans[i].qr_data = last'.arg}) = 1
          /\ last'.hist = FALSE
          /\ db' = Before]_vars

\* C3: from the empty store, saving "https://a.com" (url),
\* "WIFI:S:Home;T:WPA;P:secret;" (wifi) and "https://a.com" again on one day
\* returns three times, the third time the first id, leaves two records, and
\* get_stats then reports total_scans 2 and by_type {url: 1, wifi: 1}
C3_ThreeSaves ==
    scn # Off =>
        /\ \A k \in DOMAIN scn : scn[k].status = "ok"
        /\ Len(scn) = 3 =>
              /\ scn[3].value = scn[1].value
              /\ Cardinality(DOMAIN db.scans) = 2
              /\ get_stats_result(db.scans).status = "ok"
              /\ get_stats_result(db.scans).value.total_scans = 2
              /\ get_stats_result(db.scans).value.by_type
                    = [t \in {"url", "wifi"} |-> 1]

\* the daily_stats row of date is what the scans rows of scan_date give
DailyStatsConsistent(d, date, scan_date) ==
    LET rows == {i \in DOMAIN d.scans : d.scans[i].scan_date = scan_date}
    IN /\ date \in DOMAIN d.daily_stats
       /\ d.daily_stats[date].total_scans = Cardinality(rows)
       /\ d.daily_stats[date].unique_scans
            = Cardinality({d.scans[i].data_hash : i \in rows})
       /\ d.daily_stats[date].by_type
            = [t \in {d.scans[i].qr_type : i \in rows} |->
                 Cardinality({i \in rows : d.scans[i].qr_type = t})]

\* C4: when save_scan returns after committing a new record, the daily_stats
\* row of today exists and agrees with the scans rows dated today
C4_DailyStatsAfterSave ==
    [][(Returns /\ last'.op = "save_scan" /\ last'.status = "ok"
          /\ last'.hist = TRUE)
       => \E tz \in TimeZones :
             DailyStatsConsistent(db', date_today(tz), sql_date_now)]_vars

\* C5: a mutating call that raises leaves both tables (and the id counter)
\* as they were when it began
C5_FailureRollsBack ==
    [][(Returns /\ last'.status \in Errors /\ last'.op # "get_stats")
       => db' = Before]_vars

\* C5 witness: a save_scan that had inserted its row raised, next to a
\* stored record
C5_Witness ==
    /\ pc = "idle"
    /\ last.op = "save_scan" /\ last.status \in Errors
    /\ db.scans # <<>>

\* C6: what get_stats returns describes the current rows: their number, the
\* number of distinct hashes, the count per type and the number of favorites
C6_GetStatsDescribesRows ==
    (pc = "idle" /\ last.op = "get_stats") =>
        /\ last.status = "ok"
        /\ last.value.total_scans = Cardinality(DOMAIN db.scans)
        /\ last.value.unique_scans
             = Cardinality({db.scans[i].data_hash : i \in DOMAIN db.scans})
        /\ last.value.by_type
             = [t \in {db.scans[i].qr_type : i \in DOMAIN db.scans} |->
                  Cardinality({i \in DOMAIN db.scans : db.scans[i].qr_type = t})]
        /\ last.value.favorites
             = Cardinality({i \in DOMAIN db.scans : db.scans[i].is_favorite = 1})

\* C7: toggle_favorite of a stored id returns the negation of the flag,
\* stores it, and the second of two toggles in a row restores the flag the
\* record had before the first
C7_ToggleFlips ==
    [][(/\ Returns
        /\ last'.op = "toggle_favorite" /\ last'.status = "ok"
        /\ last'.arg \in DOMAIN db.scans)
       => LET id == last'.arg
          IN /\ last'.value = (db.scans[id].is_favorite = 0)
             /\ db'.scans[id].is_favorite = (IF last'.value THEN 1 ELSE 0)
             /\ last'.hist.twice => db'.scans[id].is_favorite = last.hist.before]_vars

\* C7 witness: the second of two toggles in a row has returned
C7_Witness ==
    /\ last.op = "toggle_favorite" /\ last.status = "ok"
    /\ last.arg \in DOMAIN db.scans
    /\ last.hist.twice

\* C8: toggle_favorite and delete_scan of an id that is not stored return
\* False and change no record and no daily_stats row
C8_AbsentIdNoOp ==
    [][(/\ Returns
        /\ last'.op \in {"toggle_favorite", "delete_scan"}
        /\ last'.status = "ok"
        /\ last'.arg \notin DOMAIN db.scans)
       => last'.value = FALSE /\ db' = db]_vars

\* C8 witness: delete_scan of an absent id has returned False while a record
\* is stored
C8_Witness ==
    /\ last.op = "delete_scan" /\ last.status = "ok" /\ last.value = FALSE
    /\ db.scans # <<>>

\* C9: no result of get_all_scans, get_scans_by_type, get_favorites or
\* search_scans holds an id for which delete_scan has returned True
C9_DeletedNeverListed ==
    LET gone == {d.id : d \in deleted}
    IN gone # {} =>
        /\ \A limit \in Limits : \A rows \in get_all_scans(db.scans, limit) :
              RowIds(rows) \cap gone = {}
        /\ \A t \in RowTypes : \A rows \in get_scans_by_type(db.scans, t) :
              RowIds(rows) \cap gone = {}
        /\ \A rows \in get_favorites(db.scans) : RowIds(rows) \cap gone = {}
        /\ \A q \in Queries : \A rows \in search_scans(db.scans, q) :
              RowIds(rows) \cap gone = {}

\* C9 witness: the payload of a deleted record is stored again, is a
\* favorite, and every query returns it
C9_Witness ==
    \E d \in deleted : \E i \in DOMAIN db.scans :
        /\ db.scans[i].qr_data = d.qr_data
        /\ db.scans[i].is_favorite = 1
        /\ \E rows \in get_all_scans(db.scans, 1) : i \in RowIds(rows)
        /\ \E rows \in get_favorites(db.scans) : i \in RowIds(rows)
        /\ \E rows \in search_scans(db.scans, <<"p", "n", "g">>) : i \in RowIds(rows)

\* C10: the ids returned for inserted records are strictly increasing, also
\* across deletions
C10_IdsIncrease ==
    /\ \A i, j \in DOMAIN issued : i < j => issued[i] < issued[j]
    /\ \A i \in DOMAIN db.scans : \E k \in DOMAIN issued : issued[k] = i

\* C10 witness: the record with the largest id was deleted, the store was
\* empty, and the next insert got a larger id
C10_Witness ==
    /\ Len(issued) >= 2
    /\ \E d \in deleted : d.id = issued[Len(issued) - 1]
    /\ DOMAIN db.scans = {issued[Len(issued)]}

\* C11: get_all_scans(limit) returns at most limit records, the later
\* inserted (larger id) first, and omits no record inserted later than one it
\* returns, also when records were inserted within the same clock second
C11_NewestFirst ==
    \A limit \in Limits : \A rows \in get_all_scans(db.scans, limit) :
        /\ Len(rows) <= limit
        /\ \A i, j \in DOMAIN rows : i < j => rows[i].id > rows[j].id
        /\ \A o \in DOMAIN db.scans \ RowIds(rows) :
              \A k \in DOMAIN rows : o < rows[k].id

\* C15: no second writer transaction is begun on the database while an
\* earlier one is open, and no write is rejected by a lock that the same
\* operation holds
C15_OneWriterAtATime ==
    /\ last.status # "locked"
    /\ (pc = "update_daily_stats" /\ stats_groups(db.scans) # {}) => write_lock_free

ImmutableColumns == {"id", "qr_data", "data_hash", "qr_type", "data_preview"}
\* the rows of after are the rows of before, but for column of the row id
OnlyColumnChanged(before, after, id, column) ==
    /\ DOMAIN after = DOMAIN before
    /\ \A i \in DOMAIN before :
          after[i] = (IF i = id
                      THEN [before[i] EXCEPT ![column] = after[i][column]]
                      ELSE before[i])

\* C16: a stored record keeps its id, qr_data, data_hash, qr_type and
\* data_preview; toggle_favorite changes only is_favorite, update_tags only
\* tags and update_notes only notes, each of the record with the given id
\* only; a duplicate save_scan changes no record
C16_RecordFrame ==
    [][/\ \A i \in DOMAIN db.scans \cap DOMAIN db'.scans :
            \A c \in ImmutableColumns : db'.scans[i][c] = db.scans[i][c]
       /\ (Returns /\ last'.op = "toggle_favorite")
            => OnlyColumnChanged(db.scans, db'.scans, last'.arg, "is_favorite")
       /\ (Returns /\ last'.op = "update_tags")
            => OnlyColumnChanged(db.scans, db'.scans, last'.arg, "tags")
       /\ (Returns /\ last'.op = "update_notes")
            => OnlyColumnChanged(db.scans, db'.scans, last'.arg, "notes")
       /\ (Returns /\ pc = "idle" /\ last'.op = "save_scan" /\ last'.status = "ok")
            => db'.scans = db.scans]_vars

\* C16 witness: two records are stored; the tags, the notes and the favorite
\* flag of one were changed, the other is as it was inserted
C16_Witness ==
    /\ pc = "idle"
    /\ \E i, j \in DOMAIN db.scans :
          /\ i # j
          /\ db.scans[i].tags # DefaultTags
          /\ db.scans[i].notes # NULL
          /\ db.scans[i].is_favorite = 1
          /\ db.scans[j].tags = DefaultTags
          /\ db.scans[j].notes = NULL
          /\ db.scans[j].is_favorite = 0

\* C17: delete_scan, toggle_favorite, update_tags and update_notes leave
\* daily_stats as it is; only a save_scan of a payload that is not stored
\* writes it, so the counts of a deleted record stay until such a save
C17_DailyStatsFrame ==
    [][/\ (/\ Returns
            /\ last'.op \in {"delete_scan", "toggle_favorite",
                              "update_tags", "update_notes"})
            => db'.daily_stats = db.daily_stats
       /\ db'.daily_stats # db.daily_stats
            => /\ pc = "update_daily_stats"
               /\ select_id_by_hash(db.scans, md5(call[1].arg)) = {}]_vars

\* C17 witness: delete_scan has removed a record that was saved today
C17_Witness ==
    /\ pc = "idle"
    /\ sql_date_now = 0
    /\ last.op = "delete_scan" /\ last.status = "ok" /\ last.value = TRUE
    /\ \E d \in deleted : d.id = last.arg /\ d.qr_data # NULL

Tags == <<"url", "wifi", "vcard", "email", "phone", "sms", "crypto",
          "numeric", "text">>
\* the prefixes of the rules that compare a prefix, by the place of the rule
Prefixes == [k \in {1, 2, 3, 5, 6, 7} |->
                CASE k = 1 -> {HTTP, HTTPS, WWW}
                  [] k = 2 -> {WIFI}
                  [] k = 3 -> {VCARD}
                  [] k = 5 -> {TEL}
                  [] k = 6 -> {SMSTO}
                  [] k = 7 -> {BITCOIN}]
\* the payload has one of the prefixes, character by character
HasPrefix(str, k) ==
    \E p \in Prefixes[k] :
        /\ Len(p) <= Len(str)
        /\ \A i \in DOMAIN p : str[i] = p[i]
\* the payload, whatever the case of its letters, holds 'mailto:', or '@' and
\* '.com'
EmailRule(str) ==
    LET Holds(sub) ==
            \E i \in 0..(Len(str) - Len(sub)) : \A j \in DOMAIN sub :
                sub[j] = (IF str[i + j] \in DOMAIN UpperToLower
                          THEN UpperToLower[str[i + j]] ELSE str[i + j])
    IN Holds(MAILTO) \/ (Holds(AT) /\ Holds(DOTCOM))
\* digits with at most one '.', and at least one digit
NumericRule(str) ==
    /\ \E i \in DOMAIN str : str[i] \in DecimalDigits
    /\ \A i \in DOMAIN str : str[i] \in DecimalDigits \cup {"."}
    /\ Cardinality({i \in DOMAIN str : str[i] = "."}) <= 1
RuleMatches(k, str) ==
    CASE k \in DOMAIN Prefixes -> HasPrefix(str, k)
      [] k = 4 -> EmailRule(str)
      [] k = 8 -> NumericRule(str)
      [] k = 9 -> TRUE
FirstRule(str) ==
    CHOOSE k \in DOMAIN Tags :
        RuleMatches(k, str) /\ \A j \in 1..(k - 1) : ~RuleMatches(j, str)
\* the letters of the payload in upper case
upper(str) ==
    [i \in DOMAIN str |->
        IF \E c \in DOMAIN UpperToLower : UpperToLower[c] = str[i]
        THEN CHOOSE c \in DOMAIN UpperToLower : UpperToLower[c] = str[i]
        ELSE str[i]]

\* C14: detect_content_type returns, for every payload, the tag of the first
\* rule that matches in the order url, wifi, vcard, email, phone, sms, crypto,
\* numeric, text: a 'tel:' payload with '@' and '.com' is email; the email rule
\* ignores the case of letters and the prefix rules do not; a payload that
\* matches no rule, the empty one included, is text
C14_FirstMatchWins ==
    content_type # NULL =>
        LET str == data[1]
            tag == content_type[1]
        IN /\ tag = Tags[FirstRule(str)]
           /\ tag = detect_content_type(str)
           /\ (startswith(str, TEL) /\ contains(str, AT) /\ contains(str, DOTCOM))
                 => tag = "email"
           /\ \A k \in DOMAIN Prefixes : tag = Tags[k] => HasPrefix(str, k)
           /\ EmailRule(str) <=> EmailRule(upper(str))
           /\ (\A k \in 1..8 : ~RuleMatches(k, str)) => tag = "text"
           /\ str = <<>> => tag = "text"

\* C14 witness: a payload that starts with 'tel:' and holds '@' and '.com' was
\* classified as email
C14_Witness ==
    /\ content_type = Some("email")
    /\ startswith(data[1], TEL)
    /\ contains(data[1], AT) /\ contains(data[1], DOTCOM)

\* the rasters in the order scan_qr_from_image can decode them
RasterOrder == <<"image_np", "thresh", "otsu", "equalized", "denoised">>

\* C12: scan_qr_from_image decodes the image as it is first; the enhanced
\* images are decoded only after a decode with no symbol, one at a time in the
\* order of enhance_image_for_scanning, and none after the first decode that
\* gave a symbol; the results come from one raster only
C12_FirstSuccessStops ==
    /\ Len(decodes) <= Len(RasterOrder)
    /\ \A i \in DOMAIN decodes :
          /\ decodes[i].raster = RasterOrder[i]
          /\ i < Len(decodes) => decodes[i].objects = <<>>
    /\ \A r \in DOMAIN scan_results :
          /\ decodes # <<>>
          /\ \E o \in DOMAIN decodes[Len(decodes)].objects :
                LET obj == decodes[Len(decodes)].objects[o]
                IN /\ scan_results[r].data = utf8_decode_ignore(obj.data)
                   /\ scan_results[r].bounds = obj.rect
    /\ scan_pc = "enhanced" => enhanced_images = SubSeq(RasterOrder,
                                  Len(decodes) + 1, Len(RasterOrder))

\* C12 witness: the call returned the symbols of the second enhanced image;
\* the image as it is and the first enhanced image gave no symbol
C12_Witness ==
    /\ scan_pc = "returned"
    /\ Len(decodes) = 3
    /\ scan_results # <<>>

\* the texts of a list of symbols, each once, in the order of their first
\* occurrence
FirstOccurrences(objects) ==
    LET texts == [i \in DOMAIN objects |-> utf8_decode_ignore(objects[i].data)]
        firsts == {i \in DOMAIN texts : \A j \in 1..(i - 1) : texts[j] # texts[i]}
        Nth(n) == CHOOSE i \in firsts :
                      Cardinality({j \in firsts : j < i}) = n - 1
    IN [n \in 1..Cardinality(firsts) |-> texts[Nth(n)]]

\* C13: the result of a scan_qr_from_image call holds each decoded text once,
\* in the order of first occurrence, with the type detect_content_type gives
\* it; a call on an image with no symbol returns the empty list and does not
\* raise
C13_DedupTyped ==
    /\ scan_pc = "returned" =>
          /\ [r \in DOMAIN scan_results |-> scan_results[r].data]
                = FirstOccurrences(decoded_objects)
          /\ \A r, q \in DOMAIN scan_results :
                r # q => scan_results[r].data # scan_results[q].data
          /\ \A r \in DOMAIN scan_results :
                scan_results[r].type = Tags[FirstRule(scan_results[r].data)]
          /\ (\A i \in DOMAIN decodes : decodes[i].objects = <<>>)
                => scan_results = <<>>
    /\ scan_pc # "raised"

TypeOK ==
    /\ pc \in {"idle", "update_daily_stats", "save_return"}
    /\ (pc = "idle") <=> (tx = NULL)
====
